---- MODULE Spec2Model ----
(***************************************************************************)
(* Model of src/main.py: a PyQt dish-ordering window (MainWindow) over a   *)
(* SQLite store (DatabaseManager) with the tables dishes, orders and       *)
(* order_details.                                                          *)
(*                                                                         *)
(* Representation choices                                                  *)
(*  - Prices and totals are integer cents.  Every price in the program has *)
(*    exactly two decimals (the sample rows, and QDoubleSpinBox with       *)
(*    setDecimals(2)), so sums of them are whole cents and "{:.2f}" of the *)
(*    float sum prints exactly that number of cents.                       *)
(*  - A table is the set of its rows; AUTOINCREMENT keeps, per table, the  *)
(*    largest rowid ever used (sqlite_sequence), modelled as *_seq.        *)
(*  - Text typed by the user is a sequence of one-character strings, so    *)
(*    that str.strip() and the file-name sanitising are computed.          *)
(*  - A Dish object held in selected_dishes carries the field "loaded":    *)
(*    TRUE iff that very object is an element of the current self.dishes   *)
(*    list (object identity; load_dishes builds new objects).              *)
(*  - The wall clock only moves forward here, one step per saved order.    *)
(*    datetime.now() is naive local time, so this is an assumption about   *)
(*    the machine; order dates are the isoformat() texts and are compared  *)
(*    as SQLite compares TEXT.                                             *)
(***************************************************************************)
EXTENDS Integers, Sequences, FiniteSets, TLC

(***************************************************************************)
(* Bounds of the model.                                                    *)
(***************************************************************************)
\* How many rows of the sample list (src/main.py:61-69) the model seeds.
SampleCount == 1
\* Largest dish id the store hands out (caps the AUTOINCREMENT counter).
MaxDishId == 2
\* How many orders may be saved.
MaxOrders == 2

(***************************************************************************)
(* Small helpers on sequences and sets.                                    *)
(***************************************************************************)
Range(s) == {s[i] : i \in DOMAIN s}

RECURSIVE SumSeq(_)
SumSeq(s) == IF s = <<>> THEN 0 ELSE Head(s) + SumSeq(Tail(s))

RECURSIVE ByRowid(_)
\* The rows of a table in rowid order (a scan of a rowid table's b-tree).
ByRowid(rows) ==
    IF rows = {} THEN <<>>
    ELSE LET r == CHOOSE x \in rows : \A y \in rows : x.id <= y.id
         IN  <<r>> \o ByRowid(rows \ {r})

Orderings(S) ==
    {f \in [1..Cardinality(S) -> S] : \A i, j \in DOMAIN f : i # j => f[i] # f[j]}

(***************************************************************************)
(* Text.                                                                   *)
(***************************************************************************)
RECURSIVE Str(_)
\* The Python str made of the characters cs.
Str(cs) == IF cs = <<>> THEN "" ELSE Head(cs) \o Str(Tail(cs))

Whitespace == {" ", "\t", "\n"}

RECURSIVE lstrip(_)
lstrip(cs) == IF cs # <<>> /\ Head(cs) \in Whitespace THEN lstrip(Tail(cs)) ELSE cs

RECURSIVE rstrip(_)
rstrip(cs) ==
    IF cs # <<>> /\ cs[Len(cs)] \in Whitespace
    THEN rstrip(SubSeq(cs, 1, Len(cs) - 1)) ELSE cs

\* str.strip()
strip(cs) == rstrip(lstrip(cs))

Alnum == {"T", "e", "a", "S", "o", "u", "p", "n", "w", "d", "i", "s", "h"}

\* "".join(c if c.isalnum() else "_" for c in name)
safe_name(cs) == [i \in DOMAIN cs |-> IF cs[i] \in Alnum THEN cs[i] ELSE "_"]

\* Code points of the characters that occur in a timestamp.
Ord(c) ==
    CASE c = "." -> 46 [] c = "0" -> 48 [] c = "1" -> 49 [] c = "2" -> 50
      [] c = "3" -> 51 [] c = "4" -> 52 [] c = "5" -> 53 [] c = "6" -> 54
      [] c = "7" -> 55 [] c = "8" -> 56 [] c = "9" -> 57 [] c = "T" -> 84

Digit(n) == CASE n = 0 -> "0" [] n = 1 -> "1" [] n = 2 -> "2" [] n = 3 -> "3"
              [] n = 4 -> "4" [] n = 5 -> "5" [] n = 6 -> "6" [] n = 7 -> "7"
              [] n = 8 -> "8" [] n = 9 -> "9"

RECURSIVE TextLess(_, _)
\* SQLite's BINARY collation on TEXT: byte-wise, a proper prefix is smaller.
TextLess(a, b) ==
    IF b = <<>> THEN FALSE
    ELSE IF a = <<>> THEN TRUE
    ELSE IF Head(a) # Head(b) THEN Ord(Head(a)) < Ord(Head(b))
    ELSE TextLess(Tail(a), Tail(b))

\* datetime.isoformat() of the clock reading t (half seconds since the start
\* of the day's current ten-second span; the fixed-width prefix
\* "YYYY-MM-DDTHH:MM:S" is cut to "T").  isoformat() omits the fraction when
\* the microsecond field is 0.
isoformat(t) ==
    <<"T", Digit(t \div 2)>> \o
    (IF t % 2 = 0 THEN <<>> ELSE <<".", "5", "0", "0", "0", "0", "0">>)

(***************************************************************************)
(* The store: DatabaseManager over dishes.db.                              *)
(***************************************************************************)
\* The first rows of sample_dishes, src/main.py:61-69 (names transliterated).
sample_dishes_all ==
    << [name |-> "Pasta Carbonara",  price |-> 1299, image_path |-> "images/pasta.jpg"],
       [name |-> "Pizza Margherita", price |-> 1550, image_path |-> "images/pizza.jpg"],
       [name |-> "Caesar Salad",     price |-> 875,  image_path |-> "images/salad.jpg"],
       [name |-> "Ribeye Steak",     price |-> 2599, image_path |-> "images/steak.jpg"],
       [name |-> "California Sushi", price |-> 1825, image_path |-> "images/sushi.jpg"],
       [name |-> "Borscht",          price |-> 750,  image_path |-> "images/borscht.jpg"],
       [name |-> "Pelmeni",          price |-> 1025, image_path |-> "images/dumplings.jpg"] >>

sample_dishes == SubSeq(sample_dishes_all, 1, SampleCount)

\* dishes.db before the first connection: no table holds a row.
NoDatabase ==
    [dishes |-> {}, dish_seq |-> 0,
     orders |-> {}, order_seq |-> 0,
     order_details |-> {}, detail_seq |-> 0]

\* The rowid INSERT gives a new row of an AUTOINCREMENT table whose
\* sqlite_sequence entry is seq: one more than the largest rowid ever used.
autoincrement_reuse(rows, seq) ==
    IF rows = {} THEN 1
    ELSE (CHOOSE m \in {r.id : r \in rows} : \A r \in rows : r.id <= m) + 1

autoincrement(rows, seq) == seq + 1

\* cursor.executemany("INSERT INTO dishes (name, price, image_path) ...", rows)
RECURSIVE insert_dishes(_, _)
insert_dishes(d, rows) ==
    IF rows = <<>> THEN d
    ELSE LET id == autoincrement(d.dishes, d.dish_seq)
             r  == Head(rows)
         IN  insert_dishes(
                 [d EXCEPT !.dishes = @ \cup {[id |-> id, name |-> r.name,
                                               price |-> r.price,
                                               image_path |-> r.image_path]},
                           !.dish_seq = id],
                 Tail(rows))

\* DatabaseManager.__init__ -> init_database: CREATE TABLE IF NOT EXISTS
\* changes no row; the sample rows are inserted when COUNT(*) of dishes is 0.
init_database(d) ==
    IF Cardinality(d.dishes) = 0 THEN insert_dishes(d, sample_dishes) ELSE d

\* A Dish object as get_all_dishes builds it: Dish(*row), selected = False.
Dish(row) ==
    [id |-> row.id, name |-> row.name, price |-> row.price,
     image_path |-> row.image_path, selected |-> FALSE]

get_all_dishes(d) ==
    LET rows == ByRowid(d.dishes)
    IN  [i \in DOMAIN rows |-> Dish(rows[i])]

\* One orders row, then one order_details row per dish, quantity 1; the
\* result is the store after commit and the returned order_id.
save_order(d, selected, total_amount, order_date) ==
    LET order_id == autoincrement(d.orders, d.order_seq)
        lines == {[id |-> d.detail_seq + i, order_id |-> order_id,
                   dish_id |-> selected[i].id, quantity |-> 1]
                  : i \in DOMAIN selected}
    IN  [db |-> [d EXCEPT !.orders = @ \cup {[id |-> order_id,
                                             total_amount |-> total_amount,
                                             order_date |-> order_date]},
                          !.order_seq = order_id,
                          !.order_details = @ \cup lines,
                          !.detail_seq = @ + Len(selected)],
         order_id |-> order_id]

\* SQL NULL in a nullable TEXT column: a value v is <<v>>, NULL is <<>>.
NULL == <<>>

\* The columns of order_details in a joined row that found no line.
NullLine == [id |-> 0, order_id |-> 0, dish_id |-> 0, quantity |-> 0]

\* orders INNER JOIN order_details INNER JOIN dishes.
inner_join_rows(d) ==
    {[o |-> t[1], od |-> t[2], name |-> <<t[3].name>>]
     : t \in {t \in d.orders \X d.order_details \X d.dishes
              : t[1].id = t[2].order_id /\ t[2].dish_id = t[3].id}}

\* orders o LEFT JOIN order_details od ON o.id = od.order_id
\*          LEFT JOIN dishes d ON od.dish_id = d.id
\* An order without lines, and a line without its dish, keep a row with NULLs.
left_join_rows(d) ==
    LET o_od == {[o |-> t[1], od |-> t[2]]
                 : t \in {t \in d.orders \X d.order_details
                          : t[1].id = t[2].order_id}}
                \cup {[o |-> o, od |-> NullLine]
                      : o \in {x \in d.orders
                               : \A od \in d.order_details : od.order_id # x.id}}
        names_of(r) ==
            IF \E x \in d.dishes : x.id = r.od.dish_id
            THEN {<<x.name>> : x \in {y \in d.dishes : y.id = r.od.dish_id}}
            ELSE {NULL}
    IN  UNION {{[o |-> r.o, od |-> r.od, name |-> n] : n \in names_of(r)}
               : r \in o_od}

RECURSIVE join_text(_, _)
\* sep.join(names)
join_text(names, sep) ==
    IF Len(names) = 1 THEN names[1]
    ELSE names[1] \o sep \o join_text(Tail(names), sep)

\* GROUP_CONCAT(name, ', ') over the rows of one group, taken in the order of
\* their order_details rowid: NULL names are skipped, and the result is NULL
\* when no name is left.
group_concat(rows) ==
    LET with_name == {r \in rows : r.name # NULL}
        by_line   == ByRowid({[id |-> r.od.id, name |-> r.name[1]]
                              : r \in with_name})
    IN  IF with_name = {} THEN NULL
        ELSE <<join_text([i \in DOMAIN by_line |-> by_line[i].name], ", ")>>

\* The result rows of the history query, one per o.id (GROUP BY o.id).
history_rows(d) ==
    LET joined == left_join_rows(d)
    IN  {[id |-> o.id, total_amount |-> o.total_amount,
          order_date |-> o.order_date,
          dish_names |-> group_concat({r \in joined : r.o.id = o.id})]
         : o \in {r.o : r \in joined}}

\* ORDER BY o.order_date DESC on TEXT; rows of equal date come in any order.
\* The set of the sequences fetchall() may return.
get_order_history(d) ==
    {h \in Orderings(history_rows(d))
     : \A i, j \in DOMAIN h
       : i < j => ~TextLess(h[i].order_date, h[j].order_date)}

add_new_dish_reuse(d, name, price, image_path) ==
    LET dish_id == autoincrement_reuse(d.dishes, d.dish_seq)
    IN  [db |-> [d EXCEPT !.dishes = @ \cup {[id |-> dish_id, name |-> name,
                                             price |-> price,
                                             image_path |-> image_path]},
                          !.dish_seq = dish_id],
         dish_id |-> dish_id]

add_new_dish(d, name, price, image_path) ==
    LET dish_id == autoincrement(d.dishes, d.dish_seq)
    IN  [db |-> [d EXCEPT !.dishes = @ \cup {[id |-> dish_id, name |-> name,
                                             price |-> price,
                                             image_path |-> image_path]},
                          !.dish_seq = dish_id],
         dish_id |-> dish_id]

\* DELETE FROM dishes WHERE id = ? with the lines of the dish deleted too.
delete_dish_cascade(d, dish_id) ==
    [d EXCEPT !.dishes = {r \in @ : r.id # dish_id},
              !.order_details = {r \in @ : r.dish_id # dish_id}]

\* DELETE FROM dishes WHERE id = ?  (foreign keys are not enforced: the
\* connection never sets PRAGMA foreign_keys, so no line blocks the delete
\* and none is deleted with it).
delete_dish(d, dish_id) ==
    [d EXCEPT !.dishes = {r \in @ : r.id # dish_id}]

(***************************************************************************)
(* The images directory, as AddDishDialog sees it.                         *)
(***************************************************************************)
\* A path is the record of os.path.splitext(path); the empty path is the
\* dialog's initial selected_image_path (nothing chosen).
NoImage == [root |-> "", ext |-> ""]

\* AddDishDialog.copy_image_to_folder: the file system afterwards and the
\* returned image path.  outcome says which call of the try block raises.
copy_image_to_folder(f, selected_image_path, text, outcome) ==
    IF selected_image_path = NoImage
    THEN [fs |-> f, image_path |-> "images/default.jpg"]
    ELSE IF ~f.images_dir /\ outcome = "makedirs_raises"
    THEN [fs |-> f, image_path |-> "images/default.jpg"]
    ELSE LET made == [f EXCEPT !.images_dir = TRUE]
             name == IF strip(text) # <<>> THEN strip(text)
                     ELSE <<"n", "e", "w", "_", "d", "i", "s", "h">>
             extension == IF selected_image_path.ext # ""
                          THEN selected_image_path.ext ELSE ".jpg"
             new_filename == "images/" \o Str(safe_name(name)) \o extension
             source == selected_image_path.root \o selected_image_path.ext
         IN  IF outcome = "copy2_raises"
             THEN [fs |-> made, image_path |-> "images/default.jpg"]
             ELSE [fs |-> [made EXCEPT !.files =
                              {x \in @ : x.path # new_filename}
                              \cup {[path |-> new_filename, content |-> source]}],
                   image_path |-> new_filename]

(***************************************************************************)
(* The main window.                                                        *)
(***************************************************************************)
VARIABLES
    db,               \* the rows of dishes.db
    fs,               \* the files the program writes: the images directory
                      \* and the two export files
    now,              \* the wall clock datetime.now() reads, in half seconds
    dishes,           \* MainWindow.dishes: the Dish objects of the last load
    checkbox,         \* checkbox[i]: DishWidget i's checkbox is checked
    selected_dishes,  \* MainWindow.selected_dishes
    totalLabel,       \* the amount totalLabel shows, in cents
    statusbar,        \* the count the status bar shows
    msg,              \* the message box the last handler showed
    op,               \* the last handler or call that ran
    call,             \* arguments and result of its store call
    ever_ids,         \* every dish id some dishes row has had
    created           \* per order id: what save_order wrote, and the rows
                      \* the dishes table held for its lines at that moment

vars == <<db, fs, now, dishes, checkbox, selected_dishes, totalLabel,
          statusbar, msg, op, call, ever_ids, created>>

\* Qt.CheckState.Checked.value and Qt.CheckState.Unchecked.value
Qt_Checked == 2

Qt_Unchecked == 0

CheckState(checked) == IF checked THEN Qt_Checked ELSE Qt_Unchecked

\* The reference selected_dishes holds to a Dish object of self.dishes.
Ref(dish) ==
    [id |-> dish.id, name |-> dish.name, price |-> dish.price,
     image_path |-> dish.image_path, loaded |-> TRUE]

IsSelected(dish) == dish.selected

Prices(ds) == [i \in DOMAIN ds |-> ds[i].price]

update_total_keep(ds, old) ==
    [selected_dishes |-> old,
     totalLabel |-> SumSeq(Prices(old)),
     statusbar |-> Len(old)]

\* MainWindow.update_total: the new selected_dishes, label and status count.
\* old is the previous selected_dishes, which the method overwrites.
update_total(ds, old) ==
    LET sel == SelectSeq(ds, IsSelected)
        selected == [i \in DOMAIN sel |-> Ref(sel[i])]
    IN  [selected_dishes |-> selected,
         totalLabel |-> SumSeq(Prices(selected)),
         statusbar |-> Len(selected)]

\* MainWindow.load_dishes: self.dishes is replaced by new Dish objects and
\* the grid by new DishWidgets (unchecked).  selected_dishes is not assigned:
\* it keeps the objects of the list that was replaced.
load_dishes(d, old) ==
    [dishes |-> get_all_dishes(d),
     checkbox |-> [i \in DOMAIN get_all_dishes(d) |-> FALSE],
     selected_dishes |-> [i \in DOMAIN old |-> [old[i] EXCEPT !.loaded = FALSE]]]

\* DishWidget.on_checkbox_changed, before it calls on_selection_change.
on_checkbox_changed(ds, i, state) ==
    [ds EXCEPT ![i].selected = (state = Qt_Checked)]

reset_checkboxes_none(ds, cb) ==
    [dishes |-> ds, checkbox |-> cb]

\* MainWindow.reset_checkboxes: setChecked(False) on every DishWidget; a
\* checkbox that was checked emits stateChanged(Unchecked), whose slot
\* on_checkbox_changed clears the dish's flag.
reset_checkboxes(ds, cb) ==
    [dishes |-> [i \in DOMAIN ds |->
                    IF cb[i] THEN on_checkbox_changed(ds, i, Qt_Unchecked)[i]
                    ELSE ds[i]],
     checkbox |-> [i \in DOMAIN cb |-> FALSE]]

\* for dish in self.dishes: dish.selected = False
clear_selected(ds) == [i \in DOMAIN ds |-> [ds[i] EXCEPT !.selected = FALSE]]

\* raised names the call of the handler that raised, "none" when none did.
\* statements counts the execute calls save_order completed before that.
NoCall ==
    [dish_id |-> 0, order_id |-> 0, selected |-> <<>>, total |-> 0,
     name |-> "", price |-> 0, image_path |-> "", raised |-> "none",
     statements |-> 0]

Ids(rows) == {r.id : r \in rows}

\* What is remembered of an order when save_order writes it.
Creation(d, selected, order_date, total) ==
    [total_amount |-> total, order_date |-> order_date,
     lines |-> Len(selected),
     catalog |-> {[id |-> r.id, price |-> r.price]
                  : r \in {x \in d.dishes
                           : \E i \in DOMAIN selected : selected[i].id = x.id}}]

\* A path at which no file exists.  written is what the write calls put into
\* the file, call by call.
NoFile == [exists |-> FALSE, written |-> <<>>]

\* main(): MainWindow() on a machine without dishes.db.
Init ==
    LET d == init_database(NoDatabase)
        l == load_dishes(d, <<>>)
        u == update_total(l.dishes, l.selected_dishes)
    IN  /\ db = d
        /\ fs = [images_dir |-> FALSE, files |-> {},
                 order_txt |-> NoFile, orders_csv |-> NoFile]
        /\ now = 0
        /\ dishes = l.dishes
        /\ checkbox = l.checkbox
        /\ selected_dishes = u.selected_dishes
        /\ totalLabel = u.totalLabel
        /\ statusbar = u.statusbar
        /\ msg = "none"
        /\ op = "startup"
        /\ call = NoCall
        /\ ever_ids = Ids(d.dishes)
        /\ created = <<>>

(***************************************************************************)
(* The handlers of the main window.                                        *)
(***************************************************************************)
\* What the user may type into the name field of the add-dish dialog.
NameTexts == { <<" ">>, <<" ", "T", "e", "a">> }

\* The price spin box (0.01 .. 1000.00, two decimals) is left at the value
\* the dialog sets, 10.00.
PriceChoices == {1000}

\* The prices a direct caller passes to add_new_dish.
ApiPrices == {1000, 1299}

\* A click on the checkbox of DishWidget i: stateChanged ->
\* DishWidget.on_checkbox_changed -> MainWindow.update_total.
Toggle(i) ==
    LET cb == [checkbox EXCEPT ![i] = ~@]
        ds == on_checkbox_changed(dishes, i, CheckState(cb[i]))
        u  == update_total(ds, selected_dishes)
    IN  /\ checkbox' = cb
        /\ dishes' = ds
        /\ selected_dishes' = u.selected_dishes
        /\ totalLabel' = u.totalLabel
        /\ statusbar' = u.statusbar
        /\ msg' = "none"
        /\ op' = "toggle"
        /\ call' = NoCall
        /\ UNCHANGED <<db, fs, now, ever_ids, created>>

\* MainWindow.confirm_order
ConfirmOrder ==
    /\ selected_dishes = <<>> \/ db.order_seq < MaxOrders
    /\ op' = "confirm_order"
    /\ IF selected_dishes = <<>>
       THEN /\ msg' = "warning: choose dishes"
            /\ call' = NoCall
            /\ UNCHANGED <<db, fs, now, dishes, checkbox, selected_dishes,
                           totalLabel, statusbar, ever_ids,
                           created>>
       ELSE LET total   == SumSeq(Prices(selected_dishes))
                r       == save_order(db, selected_dishes, total, isoformat(now))
                cleared == clear_selected(dishes)
                u       == update_total(cleared, selected_dishes)
                rc      == reset_checkboxes(cleared, checkbox)
                \* the slots run by reset_checkboxes call update_total again
                u2      == IF \E i \in DOMAIN checkbox : checkbox[i]
                           THEN update_total(rc.dishes, u.selected_dishes)
                           ELSE u
            IN  /\ db' = r.db
                /\ msg' = "information: order saved"
                /\ call' = [NoCall EXCEPT !.order_id = r.order_id,
                                          !.selected = selected_dishes,
                                          !.total = total]
                /\ created' = Append(created,
                                     Creation(db, selected_dishes,
                                              isoformat(now), total))
                /\ dishes' = rc.dishes
                /\ checkbox' = rc.checkbox
                /\ selected_dishes' = u2.selected_dishes
                /\ totalLabel' = u2.totalLabel
                /\ statusbar' = u2.statusbar
                \* the clock has moved on when the handler returns
                /\ now' = now + 1
                /\ UNCHANGED <<fs, ever_ids>>

\* MainWindow.show_order_history: OrderHistoryDialog.__init__ builds its own
\* DatabaseManager (init_database runs again) and load_orders reads
\* get_order_history into the table of the dialog, which lives until the
\* dialog is closed and leaves nothing behind but the store.
ShowOrderHistory ==
    /\ db.dishes # {} \/ db.dish_seq + SampleCount <= MaxDishId
    /\ db' = init_database(db)
    /\ ever_ids' = ever_ids \cup Ids(db'.dishes)
    /\ msg' = "none"
    /\ op' = "show_order_history"
    /\ call' = NoCall
    /\ UNCHANGED <<fs, now, dishes, checkbox, selected_dishes, totalLabel,
                   statusbar, created>>

\* The call the except clause of copy_image_to_folder caught, if any.
Raised(outcome) == IF outcome = "ok" THEN "none" ELSE "copy_image_to_folder"

\* MainWindow.show_add_dish_dialog with the dialog accepted: text, price and
\* image are what the user entered, outcome what the image copy runs into.
AddDish(text, price, image, outcome) ==
    LET c    == copy_image_to_folder(fs, image, text, outcome)
        name == Str(strip(text))
    IN  /\ outcome = "makedirs_raises" => image # NoImage /\ ~fs.images_dir
        /\ outcome = "copy2_raises" => image # NoImage
        /\ name = "" \/ db.dish_seq < MaxDishId
        /\ op' = "add_dish"
        /\ fs' = c.fs
        /\ IF name = ""
           THEN /\ msg' = "warning: enter name"
                /\ call' = [NoCall EXCEPT !.raised = Raised(outcome)]
                /\ UNCHANGED <<db, now, dishes, checkbox, selected_dishes,
                               totalLabel, statusbar,
                               ever_ids, created>>
           ELSE LET r == add_new_dish(db, name, price, c.image_path)
                    l == load_dishes(r.db, selected_dishes)
                IN  /\ db' = r.db
                    /\ msg' = "information: dish added"
                    /\ call' = [NoCall EXCEPT !.dish_id = r.dish_id,
                                              !.name = name,
                                              !.price = price,
                                              !.image_path = c.image_path,
                                              !.raised = Raised(outcome)]
                    /\ ever_ids' = ever_ids \cup Ids(r.db.dishes)
                    /\ dishes' = l.dishes
                    /\ checkbox' = l.checkbox
                    /\ selected_dishes' = l.selected_dishes
                    /\ UNCHANGED <<now, totalLabel, statusbar,
                                   created>>

\* MainWindow.show_delete_dish_dialog when self.dishes is empty.
DeleteDishNoDishes ==
    /\ dishes = <<>>
    /\ msg' = "information: no dishes"
    /\ op' = "delete_dish"
    /\ call' = NoCall
    /\ UNCHANGED <<db, fs, now, dishes, checkbox, selected_dishes, totalLabel,
                   statusbar, ever_ids, created>>

\* MainWindow.show_delete_dish_dialog with item i of the list chosen and the
\* dialog accepted, then MainWindow.delete_dish with the answer reply.
DeleteDish(i, reply) ==
    LET dish_id == dishes[i].id
    IN  /\ dishes # <<>>
        /\ dish_id # 0
        /\ \E j \in DOMAIN dishes : dishes[j].id = dish_id
        /\ op' = "delete_dish"
        /\ IF reply = "Yes"
           THEN LET d == delete_dish(db, dish_id)
                    l == load_dishes(d, selected_dishes)
                IN  /\ db' = d
                    /\ msg' = "information: dish deleted"
                    /\ call' = [NoCall EXCEPT !.dish_id = dish_id]
                    /\ dishes' = l.dishes
                    /\ checkbox' = l.checkbox
                    /\ selected_dishes' = l.selected_dishes
                    /\ UNCHANGED <<fs, now, totalLabel, statusbar, ever_ids, created>>
           ELSE /\ msg' = "question: No"
                /\ call' = NoCall
                /\ UNCHANGED <<db, fs, now, dishes, checkbox, selected_dishes,
                               totalLabel, statusbar, ever_ids,
                               created>>

\* The program is closed and started again on the same dishes.db:
\* MainWindow.__init__.
Restart ==
    LET d == init_database(db)
        l == load_dishes(d, <<>>)
        u == update_total(l.dishes, l.selected_dishes)
    IN  /\ db.dishes # {} \/ db.dish_seq + SampleCount <= MaxDishId
        /\ db' = d
        /\ dishes' = l.dishes
        /\ checkbox' = l.checkbox
        /\ selected_dishes' = u.selected_dishes
        /\ totalLabel' = u.totalLabel
        /\ statusbar' = u.statusbar
        /\ ever_ids' = ever_ids \cup Ids(d.dishes)
        /\ msg' = "none"
        /\ op' = "startup"
        /\ call' = NoCall
        /\ UNCHANGED <<fs, now, created>>

Next ==
    \/ \E i \in DOMAIN dishes : Toggle(i)
    \/ ConfirmOrder
    \/ ShowOrderHistory
    \/ \E text \in NameTexts, price \in PriceChoices :
          AddDish(text, price, NoImage, "ok")
    \/ DeleteDishNoDishes
    \/ \E i \in DOMAIN dishes, reply \in {"Yes", "No"} : DeleteDish(i, reply)
    \/ Restart

\* The main window, used without choosing an image in the add-dish dialog.
Spec == Init /\ [][Next]_vars

(***************************************************************************)
(* DatabaseManager called directly, as a test of the class would.          *)
(***************************************************************************)
\* DatabaseManager(): the constructor runs init_database.
ApiInit ==
    /\ db.dishes # {} \/ db.dish_seq + SampleCount <= MaxDishId
    /\ db' = init_database(db)
    /\ ever_ids' = ever_ids \cup Ids(db'.dishes)
    /\ op' = "api_init"
    /\ call' = NoCall
    /\ UNCHANGED <<fs, now, dishes, checkbox, selected_dishes, totalLabel,
                   statusbar, msg, created>>

\* save_order on some of the dishes the store holds.
ApiSaveOrder(rows) ==
    LET selected == get_all_dishes([db EXCEPT !.dishes = rows])
        total    == SumSeq(Prices(selected))
        r        == save_order(db, selected, total, isoformat(now))
    IN  /\ rows # {}
        /\ db.order_seq < MaxOrders
        /\ db' = r.db
        /\ now' = now + 1
        /\ created' = Append(created,
                             Creation(db, selected, isoformat(now), total))
        /\ op' = "api_save_order"
        /\ call' = [NoCall EXCEPT !.order_id = r.order_id,
                                  !.total = total]
        /\ UNCHANGED <<fs, dishes, checkbox, selected_dishes, totalLabel,
                       statusbar, msg, ever_ids>>

ApiAddNewDish(name, price, image_path) ==
    LET r == add_new_dish(db, name, price, image_path)
    IN  /\ db.dish_seq < MaxDishId
        /\ db' = r.db
        /\ ever_ids' = ever_ids \cup Ids(r.db.dishes)
        /\ op' = "api_add_new_dish"
        /\ call' = [NoCall EXCEPT !.dish_id = r.dish_id, !.name = name,
                                  !.price = price,
                                  !.image_path = image_path]
        /\ UNCHANGED <<fs, now, dishes, checkbox, selected_dishes, totalLabel,
                       statusbar, msg, created>>

ApiDeleteDish(dish_id) ==
    /\ db' = delete_dish(db, dish_id)
    /\ op' = "api_delete_dish"
    /\ call' = [NoCall EXCEPT !.dish_id = dish_id]
    /\ UNCHANGED <<fs, now, dishes, checkbox, selected_dishes, totalLabel,
                   statusbar, msg, ever_ids, created>>

NextDb ==
    \/ ApiInit
    \/ \E rows \in SUBSET db.dishes : ApiSaveOrder(rows)
    \/ \E name \in {"Tea", "Pasta Carbonara"}, price \in ApiPrices,
          image_path \in {"images/default.jpg", "images/Tea.png"} :
          ApiAddNewDish(name, price, image_path)
    \/ \E dish_id \in 1..(MaxDishId + 1) : ApiDeleteDish(dish_id)

SpecDb == Init /\ [][NextDb]_vars

(***************************************************************************)
(* The main window with an image chosen in the add-dish dialog and with    *)
(* calls that raise.                                                       *)
(***************************************************************************)
\* The files the user may pick in AddDishDialog.select_image, and none.
ImageChoices ==
    {NoImage, [root |-> "/home/a", ext |-> ".png"],
              [root |-> "/home/b", ext |-> ".png"]}

\* What the try block of copy_image_to_folder may run into.
CopyOutcomes == {"ok", "makedirs_raises", "copy2_raises"}

\* The message of a handler that an exception left: no message box is shown,
\* the traceback goes to stderr and PyQt6 ends the process.
Uncaught ==
    {"uncaught: export_order_txt", "uncaught: export_to_csv",
     "uncaught: confirm_order"}

\* The event loop is running: no exception has left a slot.
Running == msg \notin Uncaught

RECURSIVE decimal(_)
\* str(n) of a natural number
decimal(n) == IF n < 10 THEN Digit(n) ELSE decimal(n \div 10) \o Digit(n % 10)

\* f"{x:.2f}" of an amount of cents
money(cents) ==
    decimal(cents \div 100) \o "." \o Digit((cents % 100) \div 10)
                            \o Digit(cents % 10)

\* "=" * 30 + "\n"
rule == "==============================\n"

\* The strings export_order_txt hands to file.write, in order (the Cyrillic
\* words, the bullet and the rouble sign are transliterated).
receipt_writes(selected) ==
    <<"YOUR ORDER:\n", rule>>
    \o [i \in DOMAIN selected |->
          "* " \o selected[i].name \o " - " \o money(selected[i].price)
               \o " RUB\n"]
    \o <<rule, "TOTAL: " \o money(SumSeq(Prices(selected))) \o " RUB\n">>

\* The rows export_to_csv hands to csv.writer: the header, then the tuples
\* get_order_history returned.
csv_rows(orders) ==
    << <<"ID", "Amount", "Date", "Dishes">> >>
    \o [i \in DOMAIN orders |->
          <<orders[i].id, orders[i].total_amount, orders[i].order_date,
            orders[i].dish_names>>]

\* What open(filename, 'w') and the writes of the with block may run into.
WriteOutcomes == {"ok", "open_raises", "write_raises"}

\* The write call that raises, when one does: the first or the second.
FailingWrites == {1, 2}

\* The file after open(filename, 'w') succeeded and the with block ran:
\* truncated, then written up to the write call k that raises, if any.
written_file(writes, outcome, k) ==
    IF outcome = "ok" THEN [exists |-> TRUE, written |-> writes]
    ELSE [exists |-> TRUE, written |-> SubSeq(writes, 1, k - 1)]

\* MainWindow.export_order_txt; filename is what the file dialog returns, ""
\* when it is cancelled.
ExportOrderTxt(filename, outcome, k) ==
    /\ op' = "export_order_txt"
    /\ UNCHANGED <<db, now, dishes, checkbox, selected_dishes, totalLabel,
                   statusbar, ever_ids, created>>
    /\ IF selected_dishes = <<>>
       THEN /\ msg' = "warning: no dishes selected"
            /\ call' = NoCall
            /\ fs' = fs
       ELSE IF filename = ""
       THEN /\ msg' = "none"
            /\ call' = NoCall
            /\ fs' = fs
       ELSE IF outcome = "open_raises"
       THEN /\ msg' = "uncaught: export_order_txt"
            /\ call' = [NoCall EXCEPT !.raised = "open"]
            /\ fs' = fs
       ELSE /\ k <= Len(receipt_writes(selected_dishes))
            /\ fs' = [fs EXCEPT !.order_txt =
                         written_file(receipt_writes(selected_dishes),
                                      outcome, k)]
            /\ IF outcome = "ok"
               THEN /\ msg' = "information: order exported"
                    /\ call' = NoCall
               ELSE /\ msg' = "uncaught: export_order_txt"
                    /\ call' = [NoCall EXCEPT !.raised = "write"]

\* OrderHistoryDialog.export_to_csv, a button of the order history dialog
\* while it is open.
ExportToCsv(filename, outcome, k) ==
    /\ op \in {"show_order_history", "export_to_csv"}
    /\ op' = "export_to_csv"
    /\ UNCHANGED <<db, now, dishes, checkbox, selected_dishes, totalLabel,
                   statusbar, ever_ids, created>>
    /\ IF filename = ""
       THEN /\ msg' = "none"
            /\ call' = NoCall
            /\ fs' = fs
       ELSE IF outcome = "open_raises"
       THEN /\ msg' = "uncaught: export_to_csv"
            /\ call' = [NoCall EXCEPT !.raised = "open"]
            /\ fs' = fs
       ELSE \E orders \in get_order_history(db) :
            /\ k <= Len(csv_rows(orders))
            /\ fs' = [fs EXCEPT !.orders_csv =
                         written_file(csv_rows(orders), outcome, k)]
            /\ IF outcome = "ok"
               THEN /\ msg' = "information: data exported"
                    /\ call' = NoCall
               ELSE /\ msg' = "uncaught: export_to_csv"
                    /\ call' = [NoCall EXCEPT !.raised = "write"]

\* MainWindow.show_add_dish_dialog when add_new_dish raises (the INSERT or
\* the commit fails): nothing of the open transaction is committed, the
\* except clause shows the error and load_dishes is not reached.
AddDishStoreFails(text, price, image, outcome) ==
    LET c    == copy_image_to_folder(fs, image, text, outcome)
        name == Str(strip(text))
    IN  /\ outcome = "makedirs_raises" => image # NoImage /\ ~fs.images_dir
        /\ outcome = "copy2_raises" => image # NoImage
        /\ name # ""
        /\ op' = "add_dish"
        /\ fs' = c.fs
        /\ msg' = "critical: dish not added"
        /\ call' = [NoCall EXCEPT !.name = name, !.price = price,
                                  !.image_path = c.image_path,
                                  !.raised = "add_new_dish"]
        /\ UNCHANGED <<db, now, dishes, checkbox, selected_dishes, totalLabel,
                       statusbar, ever_ids, created>>

\* MainWindow.delete_dish answered Yes when DatabaseManager.delete_dish
\* raises.
DeleteDishStoreFails(i) ==
    LET dish_id == dishes[i].id
    IN  /\ dishes # <<>>
        /\ dish_id # 0
        /\ op' = "delete_dish"
        /\ msg' = "critical: dish not deleted"
        /\ call' = [NoCall EXCEPT !.dish_id = dish_id,
                                  !.raised = "delete_dish"]
        /\ UNCHANGED <<db, fs, now, dishes, checkbox, selected_dishes,
                       totalLabel, statusbar, ever_ids, created>>

NextIo ==
    \/ \E i \in DOMAIN dishes : Running /\ Toggle(i)
    \/ Running /\ ShowOrderHistory
    \/ \E filename \in {"", "orders.csv"}, outcome \in WriteOutcomes,
          k \in FailingWrites :
          Running /\ ExportToCsv(filename, outcome, k)
    \/ \E filename \in {"", "order.txt"}, outcome \in WriteOutcomes,
          k \in FailingWrites :
          Running /\ ExportOrderTxt(filename, outcome, k)
    \/ \E text \in NameTexts, price \in PriceChoices, image \in ImageChoices,
          outcome \in CopyOutcomes :
          \/ Running /\ AddDish(text, price, image, outcome)
          \/ Running /\ AddDishStoreFails(text, price, image, outcome)
    \/ \E i \in DOMAIN dishes :
          \/ Running /\ DeleteDish(i, "Yes")
          \/ Running /\ DeleteDishStoreFails(i)
    \/ Restart

\* The main window with images, exports and failing calls, used without
\* confirming an order (the history it exports holds no order).
SpecIo == Init /\ [][NextIo]_vars

(***************************************************************************)
(* The main window when save_order does not reach its commit.              *)
(***************************************************************************)
\* What the connection of save_order has written after its first n execute
\* calls: the orders row, then the lines of the first n - 1 dishes.  The
\* sqlite3 module opens a transaction before the first INSERT, so these rows
\* are uncommitted until conn.commit().
executed(d, selected, total_amount, order_date, n) ==
    IF n = 0 THEN d
    ELSE LET order_id == autoincrement(d.orders, d.order_seq)
             lines == {[id |-> d.detail_seq + i, order_id |-> order_id,
                        dish_id |-> selected[i].id, quantity |-> 1]
                       : i \in 1..(n - 1)}
         IN  [d EXCEPT !.orders = @ \cup {[id |-> order_id,
                                           total_amount |-> total_amount,
                                           order_date |-> order_date]},
                       !.order_seq = order_id,
                       !.order_details = @ \cup lines,
                       !.detail_seq = @ + (n - 1)]

autocommitted(d, uncommitted) == uncommitted

\* The store once the connection is gone without conn.commit() (an exception
\* left save_order, or the process died): SQLite rolls the transaction back.
rollback(d, uncommitted) == d

\* MainWindow.confirm_order when save_order raises after n execute calls
\* (n = 0: the INSERT of the order; n = Len + 1: conn.commit()).  Nothing
\* catches the exception.
ConfirmOrderSaveFails(n) ==
    LET total == SumSeq(Prices(selected_dishes))
    IN  /\ selected_dishes # <<>>
        /\ db.order_seq < MaxOrders
        /\ n <= Len(selected_dishes) + 1
        /\ db' = rollback(db, executed(db, selected_dishes, total,
                                       isoformat(now), n))
        /\ op' = "confirm_order"
        /\ msg' = "uncaught: confirm_order"
        /\ call' = [NoCall EXCEPT !.selected = selected_dishes,
                                  !.total = total,
                                  !.raised = "save_order",
                                  !.statements = n]
        /\ UNCHANGED <<fs, now, dishes, checkbox, selected_dishes, totalLabel,
                       statusbar, ever_ids, created>>

NextTx ==
    \/ \E i \in DOMAIN dishes : Running /\ Toggle(i)
    \/ Running /\ ConfirmOrder
    \/ \E n \in 0..(MaxDishId + 1) : Running /\ ConfirmOrderSaveFails(n)
    \/ \E i \in DOMAIN dishes : Running /\ DeleteDish(i, "Yes")
    \/ \E text \in NameTexts, price \in PriceChoices :
          Running /\ AddDish(text, price, NoImage, "ok")
    \/ Restart

\* The main window with a save_order that may fail at any of its statements.
SpecTx == Init /\ [][NextTx]_vars

(***************************************************************************)
(* Properties.                                                             *)
(***************************************************************************)
NoneSelected == \A i \in DOMAIN dishes : ~dishes[i].selected

OrderSaved == op = "confirm_order" /\ msg = "information: order saved"

DishAdded == op = "add_dish" /\ msg = "information: dish added"

DishDeleted == op = "delete_dish" /\ msg = "information: dish deleted"

RECURSIVE PriceSum(_)
\* The sum of the prices of the dishes at the positions idx of self.dishes.
PriceSum(idx) ==
    IF idx = {} THEN 0
    ELSE LET i == CHOOSE x \in idx : TRUE
         IN  dishes[i].price + PriceSum(idx \ {i})

\* The lines of order o do not resolve to any row of dishes.
NoLineResolves(o) ==
    \A l \in db.order_details :
        l.order_id = o.id => l.dish_id \notin Ids(db.dishes)

\* C1: whenever no dish of the loaded dish set is flagged selected,
\* confirm_order is rejected: it shows the validation warning and the store
\* is unchanged.
C1_ConfirmWithoutSelectionRejected ==
    [][(NoneSelected /\ op' = "confirm_order")
       => (msg' = "warning: choose dishes" /\ db' = db)]_vars

\* C2: after every selection toggle, selected_dishes is exactly the list of
\* the loaded dishes whose selected flag is set, in their order, and the
\* label shows the sum of their prices (0 when there is none).
C2_ToggleAggregates ==
    op = "toggle" =>
        LET idx == {i \in DOMAIN dishes : dishes[i].selected}
        IN  /\ Len(selected_dishes) = Cardinality(idx)
            /\ \A k \in DOMAIN selected_dishes :
                  /\ selected_dishes[k].loaded
                  /\ \E i \in idx :
                        /\ selected_dishes[k].id = dishes[i].id
                        /\ selected_dishes[k].name = dishes[i].name
                        /\ selected_dishes[k].price = dishes[i].price
                        /\ Cardinality({j \in idx : j < i}) = k - 1
            /\ totalLabel = PriceSum(idx)

\* C2's case: a toggle has left two dishes selected.
C2_Witness == op = "toggle" /\ Len(selected_dishes) >= 2 /\ totalLabel > 0

\* C3: after every fresh catalog load (startup, a successful add-dish, a
\* successful delete-dish) no dish is selected, selected_dishes is empty and
\* the label shows 0.
C3_LoadClearsSelection ==
    (op = "startup" \/ DishAdded \/ DishDeleted) =>
        /\ NoneSelected
        /\ selected_dishes = <<>>
        /\ totalLabel = 0

\* C4: after every successful order submission no dish is selected,
\* selected_dishes is empty, every checkbox is unchecked and the label shows
\* 0; a confirm_order that follows at once is rejected and writes no order.
C4_SubmissionClearsSelection ==
    /\ [](OrderSaved =>
            /\ NoneSelected
            /\ selected_dishes = <<>>
            /\ \A i \in DOMAIN checkbox : ~checkbox[i]
            /\ totalLabel = 0)
    /\ [][(OrderSaved /\ op' = "confirm_order")
          => (msg' = "warning: choose dishes" /\ db' = db)]_vars

\* C4's case: an order has just been saved with two dishes selected, one
\* order being in the store already.
C4_Witness ==
    /\ OrderSaved
    /\ Len(call.selected) >= 2
    /\ Cardinality(db.orders) >= 2

\* C5: save_order(S, t) returning id, followed at once by get_order_history,
\* yields a sequence ordered newest date first whose first entry is the
\* order just saved: the returned id, the total t and, joined, exactly the
\* names of the dishes of S in some order.
C5_SavedOrderHeadsHistory ==
    OrderSaved =>
        /\ get_order_history(db) # {}
        /\ \A h \in get_order_history(db) :
              /\ \A i, j \in DOMAIN h :
                    i < j => ~TextLess(h[i].order_date, h[j].order_date)
              /\ h[1].id = call.order_id
              /\ h[1].total_amount = call.total
              /\ \E p \in Orderings(DOMAIN call.selected) :
                    h[1].dish_names =
                        <<join_text([i \in DOMAIN p |-> call.selected[p[i]].name],
                                    ", ")>>

RECURSIVE LineSum(_, _)
\* The sum, over the lines, of quantity times the price the catalog gives.
LineSum(lines, catalog) ==
    IF lines = {} THEN 0
    ELSE LET l == CHOOSE x \in lines : TRUE
             p == CHOOSE r \in catalog : r.id = l.dish_id
         IN  l.quantity * p.price + LineSum(lines \ {l}, catalog)

\* C6: the total of every order recorded through confirm_order is the sum,
\* over its order_details rows (quantity 1 each), of the price the referenced
\* dish had in the store when the order was created, and it is the total
\* written then.
C6_TotalIsSumOfStorePrices ==
    \A o \in db.orders :
        LET lines == {l \in db.order_details : l.order_id = o.id}
            then  == created[o.id]
        IN  /\ o.total_amount = then.total_amount
            /\ \A l \in lines :
                  l.quantity = 1 /\ \E r \in then.catalog : r.id = l.dish_id
            /\ o.total_amount = LineSum(lines, then.catalog)

\* C7: an order is immutable once created: after any later operations every
\* result of get_order_history has exactly one entry with its id, and that
\* entry carries the total and the date written at creation, also when none
\* of the order's lines resolves to a dish.
C7_OrdersImmutable ==
    LET results == get_order_history(db)
    IN
    /\ results # {}
    /\ \A h \in results :
          /\ Len(h) = Len(created)
          /\ \A k \in DOMAIN created :
                /\ Cardinality({i \in DOMAIN h : h[i].id = k}) = 1
                /\ \A i \in DOMAIN h :
                      h[i].id = k =>
                          /\ h[i].total_amount = created[k].total_amount
                          /\ h[i].order_date = created[k].order_date

\* C7's case: the history dialog is opened when two orders exist and the
\* lines of one of them resolve to no dish.
C7_Witness ==
    /\ op = "show_order_history"
    /\ Len(created) = 2
    /\ \E o \in db.orders : NoLineResolves(o)

\* C8: delete_dish(id) removes exactly the dishes row with that id: the other
\* dishes rows, the orders rows and the order_details rows (also those whose
\* dish_id is id) are unchanged; with no such row the store is unchanged;
\* get_all_dishes afterwards holds no dish with that id.
C8_DeleteRemovesExactlyThatRow ==
    [][op' = "api_delete_dish" =>
          LET dish_id == call'.dish_id
              after   == get_all_dishes(db')
          IN  /\ db'.dishes = {r \in db.dishes : r.id # dish_id}
              /\ db'.orders = db.orders
              /\ db'.order_details = db.order_details
              /\ db'.dish_seq = db.dish_seq
              /\ db'.order_seq = db.order_seq
              /\ db'.detail_seq = db.detail_seq
              /\ dish_id \notin Ids(db.dishes) => db' = db
              /\ \A i \in DOMAIN after : after[i].id # dish_id]_vars

\* C8's case: a dish was deleted that an order line still refers to.
C8_Witness ==
    /\ op = "api_delete_dish"
    /\ call.dish_id \in ever_ids
    /\ call.dish_id \notin Ids(db.dishes)
    /\ \E l \in db.order_details : l.dish_id = call.dish_id

\* C9: add_new_dish returns an id no dish of this store has ever had, and
\* get_all_dishes afterwards returns the previous dishes unchanged plus one
\* dish with that id, name and price, in increasing id order.
C9_AddGivesFreshId ==
    [][op' = "api_add_new_dish" =>
          LET before == get_all_dishes(db)
              after  == get_all_dishes(db')
              new    == Dish([id |-> call'.dish_id, name |-> call'.name,
                              price |-> call'.price,
                              image_path |-> call'.image_path])
          IN  /\ call'.dish_id \notin ever_ids
              /\ Len(after) = Len(before) + 1
              /\ Range(after) = Range(before) \cup {new}
              /\ \A i, j \in DOMAIN after : i < j => after[i].id < after[j].id
              /\ \A l \in db.order_details : l.dish_id # call'.dish_id]_vars

\* C9's case: a dish is added after the dish with the largest id was deleted
\* while an order line refers to the deleted dish.
C9_Witness ==
    /\ op = "api_add_new_dish"
    /\ call.dish_id - 1 \in ever_ids
    /\ call.dish_id - 1 \notin Ids(db.dishes)
    /\ \E l \in db.order_details : l.dish_id = call.dish_id - 1

\* C10: within a run of the program the set of dishes changes only through
\* add-dish and delete-dish; no other handler of the window (opening the
\* order history among them) puts sample dishes back.
C10_DishesChangeOnlyByAddAndDelete ==
    [][db'.dishes # db.dishes
       => op' \in {"add_dish", "delete_dish", "startup"}]_vars

\* C11: when the add-dish dialog is accepted with a name that is empty after
\* stripping, the warning is shown and neither the store nor the images
\* directory (no file created or overwritten, no directory created) nor the
\* loaded dish set changes, also when a source image was chosen.
C11_EmptyNameHasNoEffect ==
    [][(op' = "add_dish" /\ call'.name = "")
       => /\ msg' = "warning: enter name"
          /\ db' = db
          /\ fs' = fs
          /\ dishes' = dishes]_vars

\* The message boxes that report an error.
ErrorDialogs == {"critical: dish not added", "critical: dish not deleted"}

\* C12: every handler in which a storage or I/O call raised (the image copy
\* of add-dish, the write of export_to_csv or export_order_txt, the store
\* write of add-dish or delete-dish) shows an error dialog, no exception
\* leaves it, and the loaded dishes, the selection and the store are as
\* before.
C12_FailuresCaughtAndStateKept ==
    [][call'.raised # "none"
       => /\ msg' \in ErrorDialogs
          /\ db' = db
          /\ dishes' = dishes
          /\ selected_dishes' = selected_dishes]_vars

\* The order_details rows of order o.
LinesOf(o) == {l \in db.order_details : l.order_id = o.id}

\* C13: in every committed store state the orders row of a save_order call
\* exists if and only if all of its order_details rows exist, one per dish
\* passed and each with quantity 1; a save_order that fails before its
\* commit leaves neither the order row nor any of its lines.
C13_OrderLinesAtomic ==
    /\ [](/\ Ids(db.orders) = DOMAIN created
          /\ \A o \in db.orders :
                /\ Cardinality(LinesOf(o)) = created[o.id].lines
                /\ \A l \in LinesOf(o) : l.quantity = 1
          /\ \A l \in db.order_details : l.order_id \in Ids(db.orders))
    /\ [][call'.raised = "save_order" => db' = db]_vars
    /\ [][OrderSaved' =>
            db' = executed(db, call'.selected, call'.total, isoformat(now),
                           Len(call'.selected) + 1)]_vars

\* C13's case: save_order failed between the insert of the order and the
\* insert of its last line, an earlier order being in the store.
C13_Witness ==
    /\ call.raised = "save_order"
    /\ call.statements >= 1
    /\ call.statements <= Len(call.selected)
    /\ Len(call.selected) >= 2
    /\ db.orders # {}

\* C14: every order line confirm_order writes references a dish that, at the
\* moment of submission, is a row of the dishes table and is shown in the
\* loaded dish set; no order is recorded with a dish already deleted.
\* (confirm_order changes neither the dishes table nor the ids loaded, so the
\* state it leaves shows both as they were at submission.)
C14_OrderLinesReferenceLoadedDishes ==
    OrderSaved =>
        \A i \in DOMAIN call.selected :
            /\ call.selected[i].id \in Ids(db.dishes)
            /\ \E j \in DOMAIN dishes : dishes[j].id = call.selected[i].id

====
